---- MODULE Spec2Model ----
(***************************************************************************)
(* A model of sters/neko: the goauth2 token client (Client.Authorization,  *)
(* Client.Refresh, Client.GetOAuthURI), the gphoto search client           *)
(* (Client.request, Client.MediaItemsSearch) and the orchestrator main.    *)
(*                                                                         *)
(* Strings are sequences of atoms.  An atom is either one of the           *)
(* separator characters "&", "=", "?", one white-space character (see      *)
(* WhiteSpace) or a chunk of characters that holds none of them;           *)
(* concatenation of strings is concatenation of sequences and the empty    *)
(* string is <<>>.                                                         *)
(***************************************************************************)
EXTENDS Integers, Sequences, FiniteSets, TLC

\* ---------------------------------------------------------------- bounds
MaxCalls == 3
MaxScopes == 2
MaxItems == 1
MaxPrompts == 2

\* ------------------------------------------------------ program constants
oauthURI == <<"https://accounts.google.com/o/oauth2/v2/auth">>
authorizationURI == <<"https://www.googleapis.com/oauth2/v4/token">>
redirectURI == <<"urn:ietf:wg:oauth:2.0:oob">>
responseType == <<"code">>
accessType == <<"offline">>
grantTypeAuthorizationCode == <<"authorization_code">>
grantTypeRefreshToken == <<"refresh_token">>
baseURL == <<"https://photoslibrary.googleapis.com/v1/">>
mediaItemsSearchEndpoint == <<"mediaItems:search">>
ScopeLibraryReadOnly == <<"https://www.googleapis.com/auth/photoslibrary.readonly">>

\* ------------------------------------------------------------ input sets
Empty == <<>>
ClientIDs == {<<"id1">>, <<"id2">>, <<"id", "&", "x", "=", "1">>}
Secrets == {<<"secret">>}
ScopeNames == {ScopeLibraryReadOnly, <<"scope.a">>, <<"scope.b">>}
AccessTokens == {<<"A1">>, <<"A2">>}
RefreshTokens == {<<"R1">>, <<"R2">>}
Codes == {<<"code1">>, <<" ", "code1", " ">>}
CfgRefreshTokens == {Empty, <<" ">>, <<"\t">>, <<"R1">>, <<" ", "R1">>, <<"\t", "R1", "\r">>}
StatusCodes == {200, 400}

\* sequences over S of length 1..n
RECURSIVE SeqsUpTo(_, _)
SeqsUpTo(S, n) ==
  IF n = 0 THEN {}
  ELSE LET shorter == SeqsUpTo(S, n - 1)
       IN  {<<x>> : x \in S} \cup shorter \cup {Append(s, x) : s \in shorter, x \in S}

\* ------------------------------------------------------ string functions
\* the characters unicode.IsSpace holds to be white space: tab, line feed,
\* vertical tab, form feed, carriage return, space, NEL, NBSP, and the
\* White_Space characters beyond Latin-1 (each one atom, the ones TLA+ has
\* no escape for by their code point)
WhiteSpace ==
  {"\t", "\n", "U+000B", "\f", "\r", " ", "U+0085", "U+00A0",
   "U+1680", "U+2000", "U+2001", "U+2002", "U+2003", "U+2004", "U+2005", "U+2006",
   "U+2007", "U+2008", "U+2009", "U+200A", "U+2028", "U+2029", "U+202F", "U+205F",
   "U+3000"}

IsSpace(a) == a \in WhiteSpace

RECURSIVE TrimLeft(_)
TrimLeft(s) ==
  IF s = Empty THEN Empty
  ELSE IF IsSpace(Head(s)) THEN TrimLeft(Tail(s)) ELSE s

RECURSIVE TrimRight(_)
TrimRight(s) ==
  IF s = Empty THEN Empty
  ELSE IF IsSpace(s[Len(s)]) THEN TrimRight(SubSeq(s, 1, Len(s) - 1)) ELSE s

\* strings.TrimSpace
TrimSpace(s) == TrimRight(TrimLeft(s))

\* ------------------------------------------------------------- variables
VARIABLES
  clientID,           \* goauth2.Client.clientID
  clientSecret,       \* goauth2.Client.clientSecret
  accessToken,        \* goauth2.Client.accessToken
  accessTokenExpire,  \* goauth2.Client.accessTokenExpire
  refreshToken,       \* goauth2.Client.refreshToken
  scope,              \* goauth2.Client.scope
  uri,                \* the string last returned by GetOAuthURI
  token,              \* gphoto.Client.token
  call,               \* per call slot: the running operation and its locals
  hist,               \* per call slot: what the call has done so far (history)
  ncalls,             \* number of operations started by the caller
  mainpc,             \* position of main
  cfgRefreshToken,    \* main's cfg.RefreshToken
  mainHist            \* what main has done so far (history)

clientVars == <<clientID, clientSecret, accessToken, accessTokenExpire, refreshToken, scope>>
vars == <<clientID, clientSecret, accessToken, accessTokenExpire, refreshToken, scope,
          uri, token, call, hist, ncalls, mainpc, cfgRefreshToken, mainHist>>


\* ------------------------------------------------- goauth2: configuration
\* WithScope
WithScope(s) ==
  /\ scope' = s
  /\ UNCHANGED <<clientID, clientSecret, accessToken, accessTokenExpire, refreshToken>>

\* the strings.Builder loop of WithScopes: every scope followed by "&"
RECURSIVE WriteScopes(_)
WriteScopes(scopes) ==
  IF scopes = <<>> THEN Empty
  ELSE Head(scopes) \o <<"&">> \o WriteScopes(Tail(scopes))

\* the scope string WithScopes stores: s[:len(s)-1]
JoinedScopes(scopes) ==
  LET s == WriteScopes(scopes) IN SubSeq(s, 1, Len(s) - 1)

\* WithScopes, called with at least one scope (s[:len(s)-1] panics on no scope)
WithScopes(scopes) ==
  /\ scopes # <<>>
  /\ scope' = JoinedScopes(scopes)
  /\ UNCHANGED <<clientID, clientSecret, accessToken, accessTokenExpire, refreshToken>>

\* GetOAuthURI: plain concatenation, no value is escaped
GetOAuthURI ==
  oauthURI \o <<"?">>
    \o <<"&", "client_id", "=">> \o clientID
    \o <<"&", "redirect_uri", "=">> \o redirectURI
    \o <<"&", "scope", "=">> \o scope
    \o <<"&", "access_type", "=">> \o accessType
    \o <<"&", "response_type", "=">> \o responseType

GetRefreshToken == refreshToken
GetAccessToken == accessToken

\* ------------------------------------------------------ calls and bodies
Calls == {1, 2}

TokenKeys == {"access_token", "refresh_token", "expires_in"}

\* a JSON object body of the token endpoint: the keys it carries and their values
TokenObjects ==
  {[kind |-> "object", keys |-> ks, access_token |-> a, refresh_token |-> r, expires_in |-> e] :
     <<ks, a, r, e>> \in
       {q \in (SUBSET TokenKeys) \X (AccessTokens \cup {Empty}) \X (RefreshTokens \cup {Empty}) \X {0, 3600} :
          /\ ("access_token" \notin q[1] => q[2] = Empty)
          /\ ("refresh_token" \notin q[1] => q[3] = Empty)
          /\ ("expires_in" \in q[1] <=> q[4] = 3600)}}

\* bodies that are no JSON object: an empty body, text that is not JSON,
\* a body whose read fails
BadBody(k) == [kind |-> k, keys |-> {}, access_token |-> Empty, refresh_token |-> Empty, expires_in |-> 0]
TokenBodies == TokenObjects \cup {BadBody("empty"), BadBody("malformed"), BadBody("unreadable")}

NoBody == [kind |-> "none"]
NoResponse == [StatusCode |-> 0, Body |-> NoBody]

\* AuthorizationResponse, zero value
ZeroAuthorizationResponse == [AccessToken |-> Empty, ExpiresIn |-> 0, RefreshToken |-> Empty]
\* MediaItemsSearchResponse, zero value
ZeroSearchResponse == [NextPageToken |-> Empty, MediaItems |-> <<>>]

\* ioutil.ReadAll fails on a body that cannot be read to its end
ReadAllFails(body) == body.kind = "unreadable"
\* json.Unmarshal fails on an empty body and on text that is not JSON
UnmarshalFails(buf) == buf.kind # "object"
\* json.Unmarshal into a zero AuthorizationResponse: a key the body lacks
\* leaves the field at its zero value
UnmarshalAuthorizationResponse(buf) ==
  [AccessToken  |-> IF "access_token" \in buf.keys THEN buf.access_token ELSE Empty,
   ExpiresIn    |-> IF "expires_in" \in buf.keys THEN buf.expires_in ELSE 0,
   RefreshToken |-> IF "refresh_token" \in buf.keys THEN buf.refresh_token ELSE Empty]

\* the error a failing step returns, by the taxonomy of the errors' origins
ErrTransport == "NetworkError"
ErrRead == "NetworkError"
ErrDecode == "ProtocolError"

Idle ==
  [op |-> "none", pc |-> "idle", arg |-> Empty, ctx |-> "live", params |-> <<>>,
   reqCtx |-> "live", rawResponse |-> NoResponse, responseBuf |-> NoBody,
   response |-> ZeroAuthorizationResponse, result |-> ZeroSearchResponse, err |-> "nil"]

TokenState == [accessToken |-> accessToken, accessTokenExpire |-> accessTokenExpire,
               refreshToken |-> refreshToken]

\* history of a call that starts now
Started == [pre |-> TokenState, doCount |-> 0, reads |-> 0, decodes |-> 0]

\* what the steps of an operation leave alone
OpFrame == UNCHANGED <<clientID, clientSecret, scope, uri, token, ncalls, mainpc, cfgRefreshToken, mainHist>>
TokensUnchanged == UNCHANGED <<accessToken, accessTokenExpire, refreshToken>>

\* return err from the running operation
ReturnErr(t, e) == [call EXCEPT ![t].pc = "done", ![t].err = e]

\* http.Client.Do: a request whose context is canceled fails without a
\* response; otherwise the transport fails or delivers a response
DoOutcome(t, next, responses) ==
  /\ hist' = [hist EXCEPT ![t].doCount = @ + 1]
  /\ \/ call' = ReturnErr(t, ErrTransport)
     \/ /\ call[t].reqCtx = "live"
        /\ \E r \in responses :
             call' = [call EXCEPT ![t].pc = next, ![t].rawResponse = r]

\* ioutil.ReadAll(rawResponse.Body)
ReadOutcome(t, next) ==
  /\ hist' = [hist EXCEPT ![t].reads = @ + 1]
  /\ IF ReadAllFails(call[t].rawResponse.Body)
       THEN call' = ReturnErr(t, ErrRead)
       ELSE call' = [call EXCEPT ![t].pc = next, ![t].responseBuf = call[t].rawResponse.Body]

TokenResponses == [StatusCode : StatusCodes, Body : TokenBodies]

\* ------------------------------------------------- goauth2: Authorization
AuthorizationParams(code) ==
  [code |-> code, client_id |-> clientID, client_secret |-> clientSecret,
   redirect_uri |-> redirectURI, grant_type |-> grantTypeAuthorizationCode,
   access_type |-> accessType]

\* lines 96-115: the form and the request, bound to ctx
BeginAuthorization(t, ctx, authorizationCode) ==
  /\ call[t].pc = "idle"
  /\ call' = [call EXCEPT ![t] = [Idle EXCEPT !.op = "Authorization", !.pc = "auth_do",
                                             !.arg = authorizationCode, !.ctx = ctx,
                                             !.params = AuthorizationParams(authorizationCode),
                                             !.reqCtx = ctx]]
  /\ hist' = [hist EXCEPT ![t] = Started]
  /\ TokensUnchanged

AuthDo(t) ==
  /\ call[t].pc = "auth_do"
  /\ DoOutcome(t, "auth_read", TokenResponses)
  /\ TokensUnchanged /\ OpFrame

AuthRead(t) ==
  /\ call[t].pc = "auth_read"
  /\ ReadOutcome(t, "auth_decode")
  /\ TokensUnchanged /\ OpFrame

\* a decode that stores what it decoded before looking at the error
AuthDecode_StoreFirst(t) ==
  /\ call[t].pc = "auth_decode"
  /\ hist' = [hist EXCEPT ![t].decodes = @ + 1]
  /\ LET response == IF UnmarshalFails(call[t].responseBuf) THEN ZeroAuthorizationResponse
                     ELSE UnmarshalAuthorizationResponse(call[t].responseBuf)
     IN  /\ accessToken' = response.AccessToken
         /\ accessTokenExpire' = response.ExpiresIn
         /\ refreshToken' = response.RefreshToken
         /\ call' = IF UnmarshalFails(call[t].responseBuf) THEN ReturnErr(t, ErrDecode)
                    ELSE [call EXCEPT ![t].pc = "done", ![t].response = response]
  /\ OpFrame

\* a store that keeps the old refresh token when the response has none
AuthStore_KeepRefresh(response) ==
  /\ accessToken' = response.AccessToken
  /\ accessTokenExpire' = response.ExpiresIn
  /\ refreshToken' = IF response.RefreshToken # Empty THEN response.RefreshToken ELSE refreshToken

\* lines 135-137: all three fields take the response's values
AuthStore(response) ==
  /\ accessToken' = response.AccessToken
  /\ accessTokenExpire' = response.ExpiresIn
  /\ refreshToken' = response.RefreshToken

\* lines 128-139: decode; on success store and return nil
AuthDecode(t) ==
  /\ call[t].pc = "auth_decode"
  /\ hist' = [hist EXCEPT ![t].decodes = @ + 1]
  /\ IF UnmarshalFails(call[t].responseBuf)
       THEN /\ call' = ReturnErr(t, ErrDecode)
            /\ TokensUnchanged
       ELSE LET response == UnmarshalAuthorizationResponse(call[t].responseBuf)
            IN  /\ AuthStore(response)
                /\ call' = [call EXCEPT ![t].pc = "done", ![t].response = response]
  /\ OpFrame


\* ------------------------------------------------------ goauth2: Refresh
\* a Refresh that does not put its argument into the field
BeginRefresh_NoStore(t, ctx, arg) ==
  /\ call[t].pc = "idle"
  /\ call' = [call EXCEPT ![t] = [Idle EXCEPT !.op = "Refresh", !.pc = "ref_build",
                                             !.arg = arg, !.ctx = ctx]]
  /\ hist' = [hist EXCEPT ![t] = Started]
  /\ TokensUnchanged

\* line 143: the argument goes into the shared field before anything else
BeginRefresh(t, ctx, arg) ==
  /\ call[t].pc = "idle"
  /\ call' = [call EXCEPT ![t] = [Idle EXCEPT !.op = "Refresh", !.pc = "ref_build",
                                             !.arg = arg, !.ctx = ctx]]
  /\ hist' = [hist EXCEPT ![t] = Started]
  /\ refreshToken' = arg
  /\ UNCHANGED <<accessToken, accessTokenExpire>>

RefreshParams(rt) ==
  [client_id |-> clientID, client_secret |-> clientSecret,
   grant_type |-> grantTypeRefreshToken, refresh_token |-> rt]

\* lines 145-161: the form reads the refresh token back from the shared field
RefreshBuild(t) ==
  /\ call[t].pc = "ref_build"
  /\ call' = [call EXCEPT ![t].pc = "ref_do",
                          ![t].params = RefreshParams(refreshToken),
                          ![t].reqCtx = call[t].ctx]
  /\ UNCHANGED hist
  /\ TokensUnchanged /\ OpFrame

\* line 163-166
RefreshDo(t) ==
  /\ call[t].pc = "ref_do"
  /\ DoOutcome(t, "ref_read", TokenResponses)
  /\ TokensUnchanged /\ OpFrame

\* lines 169-172
RefreshRead(t) ==
  /\ call[t].pc = "ref_read"
  /\ ReadOutcome(t, "ref_decode")
  /\ TokensUnchanged /\ OpFrame

\* lines 174-179
RefreshDecode(t) ==
  /\ call[t].pc = "ref_decode"
  /\ hist' = [hist EXCEPT ![t].decodes = @ + 1]
  /\ IF UnmarshalFails(call[t].responseBuf)
       THEN call' = ReturnErr(t, ErrDecode)
       ELSE call' = [call EXCEPT ![t].pc = "ref_store_access",
                                 ![t].response = UnmarshalAuthorizationResponse(call[t].responseBuf)]
  /\ TokensUnchanged /\ OpFrame

\* a store of the access token that does not look whether the response has one
RefreshStoreAccess_Overwrite(t) ==
  /\ call[t].pc = "ref_store_access"
  /\ accessToken' = call[t].response.AccessToken
  /\ call' = [call EXCEPT ![t].pc = "ref_store_expire"]
  /\ UNCHANGED <<accessTokenExpire, refreshToken, hist>>
  /\ OpFrame

\* lines 181-182: the test and the store of the access token
RefreshStoreAccess(t) ==
  /\ call[t].pc = "ref_store_access"
  /\ IF call[t].response.AccessToken # Empty
       THEN /\ accessToken' = call[t].response.AccessToken
            /\ call' = [call EXCEPT ![t].pc = "ref_store_expire"]
       ELSE /\ UNCHANGED accessToken
            /\ call' = [call EXCEPT ![t].pc = "ref_store_refresh"]
  /\ UNCHANGED <<accessTokenExpire, refreshToken, hist>>
  /\ OpFrame

\* line 183: the store of the expiry, a statement of its own
RefreshStoreExpire(t) ==
  /\ call[t].pc = "ref_store_expire"
  /\ accessTokenExpire' = call[t].response.ExpiresIn
  /\ call' = [call EXCEPT ![t].pc = "ref_store_refresh"]
  /\ UNCHANGED <<accessToken, refreshToken, hist>>
  /\ OpFrame

\* lines 185-189
RefreshStoreRefresh(t) ==
  /\ call[t].pc = "ref_store_refresh"
  /\ IF call[t].response.RefreshToken # Empty
       THEN refreshToken' = call[t].response.RefreshToken
       ELSE UNCHANGED refreshToken
  /\ call' = [call EXCEPT ![t].pc = "done"]
  /\ UNCHANGED <<accessToken, accessTokenExpire, hist>>
  /\ OpFrame

\* -------------------------------------------------------- gphoto: search
ItemIDs == {"m1", "m2"}
PageTokens == {<<"P1">>}
SearchKeys == {"nextPageToken", "mediaItems"}

RECURSIVE SeqsOfLen(_, _)
SeqsOfLen(S, n) ==
  IF n = 0 THEN {<<>>}
  ELSE {Append(s, x) : s \in SeqsOfLen(S, n - 1), x \in S}

ItemLists == UNION {SeqsOfLen(ItemIDs, n) : n \in 0..MaxItems}

SearchObjects ==
  {[kind |-> "object", keys |-> ks, nextPageToken |-> p, mediaItems |-> m] :
     <<ks, p, m>> \in
       {q \in (SUBSET SearchKeys) \X (PageTokens \cup {Empty}) \X ItemLists :
          /\ ("nextPageToken" \notin q[1] => q[2] = Empty)
          /\ ("mediaItems" \notin q[1] => q[3] = <<>>)}}

BadSearchBody(k) == [kind |-> k, keys |-> {}, nextPageToken |-> Empty, mediaItems |-> <<>>]
SearchBodies == SearchObjects \cup {BadSearchBody("empty"), BadSearchBody("malformed"), BadSearchBody("unreadable")}
SearchResponses == [StatusCode : StatusCodes, Body : SearchBodies]

\* json.Unmarshal into a zero MediaItemsSearchResponse
UnmarshalSearchResponse(buf) ==
  [NextPageToken |-> IF "nextPageToken" \in buf.keys THEN buf.nextPageToken ELSE Empty,
   MediaItems    |-> IF "mediaItems" \in buf.keys THEN buf.mediaItems ELSE <<>>]

\* a search request: PagerRequest and AlbumID (Filters are left to the caller's value)
SearchRequests == {[PageSize |-> <<"100">>, PageToken |-> pt, AlbumID |-> Empty] : pt \in PageTokens \cup {Empty}}

\* json.Marshal of a MediaItemsSearchRequest: every field is omitempty
MarshalSearchRequest(req) ==
  [keys |-> {k \in {"pageSize", "pageToken", "albumId"} :
               \/ (k = "pageSize" /\ req.PageSize # Empty)
               \/ (k = "pageToken" /\ req.PageToken # Empty)
               \/ (k = "albumId" /\ req.AlbumID # Empty)},
   pageSize |-> req.PageSize, pageToken |-> req.PageToken, albumId |-> req.AlbumID]

\* NewClient of gphoto
NewGphotoClient(tok) == token' = tok

\* a request that is not bound to the caller's context
RequestContext_Background(ctx) == "live"

\* line 190: rawRequest.WithContext(ctx)
RequestContext(ctx) == ctx

\* MediaItemsSearch lines 217-224 and request lines 175-197: the body, the
\* request bound to ctx, the two headers
BeginMediaItemsSearch(t, ctx, req) ==
  /\ call[t].pc = "idle"
  /\ call' = [call EXCEPT ![t] = [Idle EXCEPT !.op = "MediaItemsSearch", !.pc = "srch_do",
                                             !.arg = req.PageToken, !.ctx = ctx,
                                             !.params = [url |-> baseURL \o mediaItemsSearchEndpoint,
                                                         Authorization |-> <<"Bearer", " ">> \o token,
                                                         body |-> MarshalSearchRequest(req)],
                                             !.reqCtx = RequestContext(ctx)]]
  /\ hist' = [hist EXCEPT ![t] = Started]
  /\ TokensUnchanged

\* a Do that sends the request again when the transport fails
SearchDo_Retry(t) ==
  /\ call[t].pc = "srch_do"
  /\ hist' = [hist EXCEPT ![t].doCount = @ + 1]
  /\ \/ /\ hist[t].doCount = 0
        /\ UNCHANGED call
     \/ /\ hist[t].doCount > 0
        /\ call' = ReturnErr(t, ErrTransport)
     \/ /\ call[t].reqCtx = "live"
        /\ \E r \in SearchResponses :
             call' = [call EXCEPT ![t].pc = "srch_read", ![t].rawResponse = r]
  /\ TokensUnchanged /\ OpFrame

\* lines 199-202
SearchDo(t) ==
  /\ call[t].pc = "srch_do"
  /\ DoOutcome(t, "srch_read", SearchResponses)
  /\ TokensUnchanged /\ OpFrame

\* lines 204-207
SearchRead(t) ==
  /\ call[t].pc = "srch_read"
  /\ ReadOutcome(t, "srch_decode")
  /\ TokensUnchanged /\ OpFrame

\* lines 209-214, and MediaItemsSearch line 225: &response goes back with err
SearchDecode(t) ==
  /\ call[t].pc = "srch_decode"
  /\ hist' = [hist EXCEPT ![t].decodes = @ + 1]
  /\ IF UnmarshalFails(call[t].responseBuf)
       THEN call' = ReturnErr(t, ErrDecode)
       ELSE call' = [call EXCEPT ![t].pc = "done",
                                 ![t].result = UnmarshalSearchResponse(call[t].responseBuf)]
  /\ TokensUnchanged /\ OpFrame



\* ------------------------------------------------------------ initial state
NoHistory == [pre |-> [accessToken |-> Empty, accessTokenExpire |-> 0, refreshToken |-> Empty],
              doCount |-> 0, reads |-> 0, decodes |-> 0]
NoMainHistory == [prompts |-> 0, refreshArgs |-> {}, refreshOK |-> FALSE, searches |-> 0,
                  exchanged |-> FALSE]

\* NewClient(clientID, clientSecret): every other field at its zero value;
\* gphoto.NewClient with no token yet; no operation running
InitWith(ids) ==
  /\ clientID \in ids
  /\ clientSecret \in Secrets
  /\ accessToken = Empty
  /\ accessTokenExpire = 0
  /\ refreshToken = Empty
  /\ scope = Empty
  /\ uri = Empty
  /\ token = Empty
  /\ call = [t \in Calls |-> Idle]
  /\ hist = [t \in Calls |-> NoHistory]
  /\ ncalls = 0
  /\ mainpc = "off"
  /\ cfgRefreshToken = Empty
  /\ mainHist = NoMainHistory

\* ------------------------------- the operations called one after another
Init == InitWith({<<"id1">>})

ApiFrame == UNCHANGED <<clientID, clientSecret, scope, uri, token, mainpc, cfgRefreshToken, mainHist>>

CallAuthorization ==
  /\ ncalls < MaxCalls
  /\ \E ctx \in {"live", "canceled"}, code \in Codes : BeginAuthorization(1, ctx, code)
  /\ ncalls' = ncalls + 1
  /\ ApiFrame

CallRefresh ==
  /\ ncalls < MaxCalls
  /\ \E ctx \in {"live", "canceled"}, rt \in RefreshTokens \cup {Empty} : BeginRefresh(1, ctx, rt)
  /\ ncalls' = ncalls + 1
  /\ ApiFrame

CallMediaItemsSearch ==
  /\ ncalls < MaxCalls
  /\ \E ctx \in {"live", "canceled"}, req \in SearchRequests : BeginMediaItemsSearch(1, ctx, req)
  /\ ncalls' = ncalls + 1
  /\ ApiFrame

\* WithAccessToken
CallWithAccessToken ==
  /\ call[1].pc = "idle"
  /\ \E a \in AccessTokens : accessToken' = a
  /\ UNCHANGED <<clientID, clientSecret, accessTokenExpire, refreshToken, scope,
                 uri, token, call, hist, ncalls, mainpc, cfgRefreshToken, mainHist>>

\* gphoto.NewClient(c, oauth2.GetAccessToken())
CallNewGphotoClient ==
  /\ call[1].pc = "idle"
  /\ NewGphotoClient(GetAccessToken)
  /\ UNCHANGED <<clientID, clientSecret, accessToken, accessTokenExpire, refreshToken, scope,
                 uri, call, hist, ncalls, mainpc, cfgRefreshToken, mainHist>>

\* the caller takes the result; the slot is free again
Return ==
  /\ call[1].pc = "done"
  /\ call' = [call EXCEPT ![1] = Idle]
  /\ UNCHANGED <<clientID, clientSecret, accessToken, accessTokenExpire, refreshToken, scope,
                 uri, token, hist, ncalls, mainpc, cfgRefreshToken, mainHist>>

Next ==
  \/ CallAuthorization \/ CallRefresh \/ CallMediaItemsSearch
  \/ CallWithAccessToken \/ CallNewGphotoClient \/ Return
  \/ AuthDo(1) \/ AuthRead(1) \/ AuthDecode(1)
  \/ RefreshBuild(1) \/ RefreshDo(1) \/ RefreshRead(1) \/ RefreshDecode(1)
  \/ RefreshStoreAccess(1) \/ RefreshStoreExpire(1) \/ RefreshStoreRefresh(1)
  \/ SearchDo(1) \/ SearchRead(1) \/ SearchDecode(1)

Spec == Init /\ [][Next]_vars


\* ---------------------------------------- properties of the token client
Done(t, op) == call[t].op = op /\ call[t].pc = "done"

\* the value a response body gives for a key: the empty string when the
\* body does not carry the key
BodyAccessToken(body) == IF "access_token" \in body.keys THEN body.access_token ELSE Empty
BodyRefreshToken(body) == IF "refresh_token" \in body.keys THEN body.refresh_token ELSE Empty
BodyExpiresIn(body) == IF "expires_in" \in body.keys THEN body.expires_in ELSE 0

\* C1: after a Refresh called with the stored refresh token R1 whose response
\* parsed, the access token is the response's when that is non-empty and the
\* prior A1 otherwise, the refresh token is the response's when that is
\* non-empty and R1 otherwise; no stored token was replaced by an empty
\* value of the response.
C1_AsymmetricOverwrite ==
  (Done(1, "Refresh") /\ call[1].err = "nil" /\ call[1].arg = hist[1].pre.refreshToken) =>
    LET body == call[1].rawResponse.Body
        A1 == hist[1].pre.accessToken
        R1 == hist[1].pre.refreshToken
    IN  /\ accessToken = (IF BodyAccessToken(body) # Empty THEN BodyAccessToken(body) ELSE A1)
        /\ refreshToken = (IF BodyRefreshToken(body) # Empty THEN BodyRefreshToken(body) ELSE R1)
        /\ (A1 # Empty => accessToken # Empty)
        /\ (R1 # Empty => refreshToken # Empty)

\* prior access=A1, refresh=R1, response {access_token: A2}: access=A2, refresh=R1
C1_Witness ==
  /\ Done(1, "Refresh") /\ call[1].err = "nil"
  /\ hist[1].pre.accessToken = <<"A1">> /\ hist[1].pre.refreshToken = <<"R1">>
  /\ call[1].arg = <<"R1">>
  /\ call[1].rawResponse.Body.keys = {"access_token"}
  /\ call[1].rawResponse.Body.access_token = <<"A2">>
  /\ accessToken = <<"A2">> /\ refreshToken = <<"R1">>

\* C2: a Refresh that returns an error leaves the stored access token, its
\* expiry and the stored refresh token as they were before the call,
\* whatever the refreshToken argument.
C2_FailedRefreshChangesNothing ==
  (Done(1, "Refresh") /\ call[1].err # "nil") => TokenState = hist[1].pre

\* C3: after a successful Authorization the three stored fields are the
\* response's access_token, expires_in and refresh_token, whatever was
\* stored before; an empty or absent refresh_token makes GetRefreshToken
\* return the empty string.
C3_ExchangeOverwritesAll ==
  (Done(1, "Authorization") /\ call[1].err = "nil") =>
    LET body == call[1].rawResponse.Body
    IN  /\ GetAccessToken = BodyAccessToken(body)
        /\ accessTokenExpire = BodyExpiresIn(body)
        /\ GetRefreshToken = BodyRefreshToken(body)

\* a refresh token was stored, the response carries none, the accessor is empty
C3_Witness ==
  /\ Done(1, "Authorization") /\ call[1].err = "nil"
  /\ hist[1].pre.refreshToken # Empty
  /\ BodyRefreshToken(call[1].rawResponse.Body) = Empty
  /\ BodyAccessToken(call[1].rawResponse.Body) = <<"A1">>
  /\ GetRefreshToken = Empty /\ GetAccessToken = <<"A1">>

\* C4: an Authorization answered with a non-2xx status fails with a
\* ProtocolError, whatever the body, and updates no token state.
C4_Non2xxIsProtocolError ==
  (/\ Done(1, "Authorization")
   /\ hist[1].reads > 0
   /\ call[1].rawResponse.StatusCode \notin 200..299) =>
    (call[1].err = "ProtocolError" /\ TokenState = hist[1].pre)

\* C6: no call of Authorization, Refresh or MediaItemsSearch hands more than
\* one request to the HTTP client, and a call that met an error has
\* returned it: it takes no further step.
C6_AtMostOneRequest ==
  \A t \in Calls :
    /\ hist[t].doCount <= 1
    /\ (call[t].err # "nil" => call[t].pc = "done")
    /\ (call[t].pc = "done" /\ call[t].err = "NetworkError" /\ hist[t].reads = 0 => hist[t].doCount = 1)

\* a search whose transport failed: one request, the error returned
C6_Witness ==
  /\ Done(1, "MediaItemsSearch") /\ call[1].err = "NetworkError"
  /\ call[1].ctx = "live"
  /\ hist[1].doCount = 1 /\ hist[1].reads = 0

\* C8: a MediaItemsSearch given a canceled context fails with a
\* NetworkError; no response body is read or decoded and the response it
\* returns has no continuation token and no media items.
C8_CanceledSearch ==
  \A t \in Calls :
    (call[t].op = "MediaItemsSearch" /\ call[t].ctx = "canceled") =>
      /\ hist[t].reads = 0 /\ hist[t].decodes = 0
      /\ call[t].result = ZeroSearchResponse
      /\ (call[t].pc = "done" => call[t].err = "NetworkError")

C8_Witness ==
  /\ Done(1, "MediaItemsSearch") /\ call[1].ctx = "canceled"
  /\ call[1].err = "NetworkError" /\ hist[1].doCount = 1

\* C10: an Authorization that returns an error leaves the three stored
\* fields as they were; the fields are untouched until the response is
\* decoded and then take the decoded values all three together.
C10_FailedExchangeAtomic ==
  \A t \in Calls :
    call[t].op = "Authorization" =>
      IF call[t].pc = "done" /\ call[t].err = "nil"
        THEN TokenState = [accessToken |-> call[t].response.AccessToken,
                           accessTokenExpire |-> call[t].response.ExpiresIn,
                           refreshToken |-> call[t].response.RefreshToken]
        ELSE TokenState = hist[t].pre

\* a decode failure with tokens stored before
C10_Witness ==
  /\ Done(1, "Authorization") /\ call[1].err = "ProtocolError"
  /\ hist[1].pre.accessToken # Empty /\ hist[1].pre.refreshToken # Empty
  /\ hist[1].pre.accessTokenExpire # 0


\* --------------------------------------------- the authorization URL alone
InitURI == InitWith(ClientIDs)

URIFrame == UNCHANGED <<token, call, hist, ncalls, mainpc, cfgRefreshToken, mainHist>>

\* scope strings a caller hands to WithScope: one scope, or several joined by a space
ScopeStrings == ScopeNames \cup {<<"scope.a", " ", "scope.b">>}

CallWithScope ==
  /\ \E s \in ScopeStrings : WithScope(s)
  /\ UNCHANGED uri /\ URIFrame

CallWithScopes ==
  /\ \E scopes \in SeqsUpTo(ScopeNames, MaxScopes) : WithScopes(scopes)
  /\ UNCHANGED uri /\ URIFrame

CallGetOAuthURI ==
  /\ uri' = GetOAuthURI
  /\ UNCHANGED clientVars /\ URIFrame

NextURI == CallWithScope \/ CallWithScopes \/ CallGetOAuthURI

SpecURI == InitURI /\ [][NextURI]_vars

\* the query of a URL: what follows the first "?"
RECURSIVE QueryOf(_)
QueryOf(u) ==
  IF u = Empty THEN Empty
  ELSE IF Head(u) = "?" THEN Tail(u) ELSE QueryOf(Tail(u))

\* the segments of s between the separators sep
RECURSIVE SplitOn(_, _, _)
SplitOn(s, sep, cur) ==
  IF s = Empty THEN <<cur>>
  ELSE IF Head(s) = sep THEN <<cur>> \o SplitOn(Tail(s), sep, Empty)
  ELSE SplitOn(Tail(s), sep, Append(cur, Head(s)))

\* a segment cut at its first "=": <<key, value>>
RECURSIVE CutKey(_, _)
CutKey(seg, key) ==
  IF seg = Empty THEN <<key, Empty>>
  ELSE IF Head(seg) = "=" THEN <<key, Tail(seg)>>
  ELSE CutKey(Tail(seg), Append(key, Head(seg)))

\* the key=value parameters of a query, empty segments skipped
ParseQuery(q) ==
  LET segs == SplitOn(q, "&", Empty)
      kept == SelectSeq(segs, LAMBDA x : x # Empty)
  IN  [i \in 1..Len(kept) |-> CutKey(kept[i], Empty)]

QueryKeys(ps) == {ps[i][1] : i \in 1..Len(ps)}
QueryValues(ps, k) == {ps[i][2] : i \in {j \in 1..Len(ps) : ps[j][1] = k}}

\* C7: the query of the URL GetOAuthURI returns for the configured client
\* identifier and scope splits into exactly the parameters client_id,
\* redirect_uri, scope, access_type and response_type, each once, with the
\* fixed values verbatim and the whole scope as the value of scope.
C7_AuthorizationURLParameters ==
  (uri # Empty /\ uri = GetOAuthURI /\ scope # Empty) =>
    LET ps == ParseQuery(QueryOf(uri))
    IN  /\ Len(ps) = 5
        /\ QueryKeys(ps) = {<<"client_id">>, <<"redirect_uri">>, <<"scope">>,
                            <<"access_type">>, <<"response_type">>}
        /\ QueryValues(ps, <<"client_id">>) = {clientID}
        /\ QueryValues(ps, <<"redirect_uri">>) = {redirectURI}
        /\ QueryValues(ps, <<"scope">>) = {scope}
        /\ QueryValues(ps, <<"access_type">>) = {accessType}
        /\ QueryValues(ps, <<"response_type">>) = {responseType}


\* ------------------------------------------------------------------- main
\* envconfig.Process has filled cfg; GOOGLE_REFRESH_TOKEN is whatever the
\* environment holds
InitMain ==
  /\ clientID \in {<<"id1">>}
  /\ clientSecret \in Secrets
  /\ accessToken = Empty
  /\ accessTokenExpire = 0
  /\ refreshToken = Empty
  /\ scope = Empty
  /\ uri = Empty
  /\ token = Empty
  /\ call = [t \in Calls |-> Idle]
  /\ hist = [t \in Calls |-> NoHistory]
  /\ ncalls = 0
  /\ mainpc = "start"
  /\ cfgRefreshToken \in CfgRefreshTokens
  /\ mainHist = NoMainHistory

\* lines 32-39: the client, its scope and its HTTP client
MainSetup ==
  /\ mainpc = "start"
  /\ WithScopes(<<ScopeLibraryReadOnly>>)
  /\ mainpc' = "check"
  /\ UNCHANGED <<uri, token, call, hist, ncalls, cfgRefreshToken, mainHist>>

\* line 41: the configured refresh token is compared untrimmed
MainCheck ==
  /\ mainpc = "check"
  /\ mainpc' = IF cfgRefreshToken = Empty THEN "prompt" ELSE "refresh"
  /\ UNCHANGED <<clientID, clientSecret, accessToken, accessTokenExpire, refreshToken, scope,
                 uri, token, call, hist, ncalls, cfgRefreshToken, mainHist>>

\* what the user types at the prompt
TypedCodes == Codes \cup {Empty, <<"\t", "code1">>, <<"U+00A0">>}

\* lines 43-55: the URL is shown, a line is read, Authorization is called
\* with the trimmed line
MainPrompt ==
  /\ mainpc = "prompt"
  /\ mainHist.prompts < MaxPrompts
  /\ uri' = GetOAuthURI
  /\ \E text \in TypedCodes : BeginAuthorization(1, "live", TrimSpace(text))
  /\ mainpc' = "authorizing"
  /\ mainHist' = [mainHist EXCEPT !.prompts = @ + 1]
  /\ UNCHANGED <<clientID, clientSecret, scope, token, ncalls, cfgRefreshToken>>

\* lines 56-68: an error ends the program; no refresh token prompts again;
\* otherwise the refresh token becomes cfg.RefreshToken
MainAfterAuthorization ==
  /\ mainpc = "authorizing"
  /\ Done(1, "Authorization")
  /\ call' = [call EXCEPT ![1] = Idle]
  /\ IF call[1].err # "nil"
       THEN /\ mainpc' = "fatal"
            /\ UNCHANGED <<cfgRefreshToken, mainHist>>
       ELSE IF GetRefreshToken = Empty
         THEN /\ mainpc' = "prompt"
              /\ UNCHANGED <<cfgRefreshToken, mainHist>>
         ELSE /\ mainpc' = "refresh"
              /\ cfgRefreshToken' = GetRefreshToken
              /\ mainHist' = [mainHist EXCEPT !.exchanged = TRUE]
  /\ UNCHANGED <<clientID, clientSecret, accessToken, accessTokenExpire, refreshToken, scope,
                 uri, token, hist, ncalls>>

\* lines 71-75: Refresh is called with the trimmed cfg.RefreshToken
MainRefresh ==
  /\ mainpc = "refresh"
  /\ BeginRefresh(1, "live", TrimSpace(cfgRefreshToken))
  /\ mainpc' = "refreshing"
  /\ mainHist' = [mainHist EXCEPT !.refreshArgs = @ \cup {TrimSpace(cfgRefreshToken)}]
  /\ UNCHANGED <<clientID, clientSecret, scope, uri, token, ncalls, cfgRefreshToken>>

\* lines 76-89: an error ends the program; otherwise the search client
\* gets the access token
MainAfterRefresh ==
  /\ mainpc = "refreshing"
  /\ Done(1, "Refresh")
  /\ call' = [call EXCEPT ![1] = Idle]
  /\ IF call[1].err # "nil"
       THEN /\ mainpc' = "fatal"
            /\ UNCHANGED <<token, mainHist>>
       ELSE /\ mainpc' = "search"
            /\ NewGphotoClient(GetAccessToken)
            /\ mainHist' = [mainHist EXCEPT !.refreshOK = TRUE]
  /\ UNCHANGED <<clientID, clientSecret, accessToken, accessTokenExpire, refreshToken, scope,
                 uri, hist, ncalls, cfgRefreshToken>>

\* lines 91-105: one search for the pets category, page size 100
MainSearch ==
  /\ mainpc = "search"
  /\ BeginMediaItemsSearch(1, "live", [PageSize |-> <<"100">>, PageToken |-> Empty, AlbumID |-> Empty])
  /\ mainpc' = "searching"
  /\ mainHist' = [mainHist EXCEPT !.searches = @ + 1]
  /\ UNCHANGED <<clientID, clientSecret, scope, uri, token, ncalls, cfgRefreshToken>>

\* lines 108-111: the items are printed (the search's error is not looked
\* at) and main returns
MainAfterSearch ==
  /\ mainpc = "searching"
  /\ Done(1, "MediaItemsSearch")
  /\ mainpc' = "exit"
  /\ UNCHANGED <<clientID, clientSecret, accessToken, accessTokenExpire, refreshToken, scope,
                 uri, token, call, hist, ncalls, cfgRefreshToken, mainHist>>

NextMain ==
  \/ MainSetup \/ MainCheck \/ MainPrompt \/ MainAfterAuthorization
  \/ MainRefresh \/ MainAfterRefresh \/ MainSearch \/ MainAfterSearch
  \/ AuthDo(1) \/ AuthRead(1) \/ AuthDecode(1)
  \/ RefreshBuild(1) \/ RefreshDo(1) \/ RefreshRead(1) \/ RefreshDecode(1)
  \/ RefreshStoreAccess(1) \/ RefreshStoreExpire(1) \/ RefreshStoreRefresh(1)
  \/ SearchDo(1) \/ SearchRead(1) \/ SearchDecode(1)

SpecMain == InitMain /\ [][NextMain]_vars

\* C5: in every run of main the prompt loop is left only after an
\* Authorization that succeeded with a non-empty refresh token, Refresh is
\* never called with an empty refresh token, and the search is issued at
\* most once and only after a Refresh that succeeded.
C5_TokenLifecycleOrdering ==
  /\ (mainHist.prompts > 0 /\ mainpc \in {"refresh", "refreshing", "search", "searching", "exit"})
       => mainHist.exchanged
  /\ Empty \notin mainHist.refreshArgs
  /\ mainHist.searches <= 1
  /\ (mainHist.searches > 0 => mainHist.refreshOK)

\* the rest of the ordering, which the program keeps
C5_OrderingApartFromEmptyArgument ==
  /\ (mainHist.prompts > 0 /\ mainpc \in {"refresh", "refreshing", "search", "searching", "exit"})
       => mainHist.exchanged
  /\ mainHist.searches <= 1
  /\ (mainHist.searches > 0 => mainHist.refreshOK)


\* ----------------------------- two Refresh calls on one Client, no locking
\* The Client has no lock: two goroutines that call Refresh on it run their
\* statements in any interleaving, each read of a field seeing the last
\* write to it.
InitRace == InitWith({<<"id1">>})

RaceCallRefresh(t) ==
  /\ ncalls < 2
  /\ \E rt \in RefreshTokens : BeginRefresh(t, "live", rt)
  /\ ncalls' = ncalls + 1
  /\ ApiFrame

NextRace ==
  \E t \in Calls :
    \/ RaceCallRefresh(t)
    \/ RefreshBuild(t) \/ RefreshDo(t) \/ RefreshRead(t) \/ RefreshDecode(t)
    \/ RefreshStoreAccess(t) \/ RefreshStoreExpire(t) \/ RefreshStoreRefresh(t)

SpecRace == InitRace /\ [][NextRace]_vars

Built(t) == call[t].op = "Refresh" /\ call[t].pc \notin {"idle", "ref_build"}

\* C9: the request of a Refresh call carries a refresh token other than the
\* call's own argument only when another Refresh call on the same Client
\* has written the shared field, and then it is that call's token; a call
\* that ran alone leaves the tokens of its own response.  (That the race is
\* reachable is C9_Witness.)
C9_ForeignTokenOnlyWhenInterleaved ==
  \A t \in Calls :
    /\ (Built(t) /\ call[t].params.refresh_token # call[t].arg) =>
         \E u \in Calls \ {t} :
           /\ call[u].op = "Refresh"
           /\ call[t].params.refresh_token \in {call[u].arg, call[u].response.RefreshToken}
    /\ (Done(t, "Refresh") /\ call[t].err = "nil" /\ \A u \in Calls \ {t} : call[u].pc = "idle") =>
         /\ call[t].params.refresh_token = call[t].arg
         /\ refreshToken = (IF call[t].response.RefreshToken # Empty
                              THEN call[t].response.RefreshToken ELSE call[t].arg)
         /\ call[t].response.AccessToken # Empty => accessToken = call[t].response.AccessToken

\* the race: call 1 sent the token passed to call 2, and the stored access
\* token is of call 2's response, the stored refresh token of call 1's
C9_Witness ==
  /\ Done(1, "Refresh") /\ Done(2, "Refresh")
  /\ call[1].err = "nil" /\ call[2].err = "nil"
  /\ call[1].arg # call[2].arg
  /\ call[1].params.refresh_token = call[2].arg
  /\ call[1].response.AccessToken # Empty /\ call[2].response.AccessToken # Empty
  /\ call[1].response.RefreshToken # Empty /\ call[2].response.RefreshToken # Empty
  /\ call[1].response.AccessToken # call[2].response.AccessToken
  /\ call[1].response.RefreshToken # call[2].response.RefreshToken
  /\ accessToken = call[2].response.AccessToken
  /\ refreshToken = call[1].response.RefreshToken


\* the same race between lines 182 and 183: the stored access token is of
\* call 2's response, the stored expiry of call 1's
RaceTornExpiry ==
  /\ Done(1, "Refresh") /\ Done(2, "Refresh")
  /\ call[1].err = "nil" /\ call[2].err = "nil"
  /\ call[1].response.AccessToken = <<"A1">> /\ call[1].response.ExpiresIn = 3600
  /\ call[2].response.AccessToken = <<"A2">> /\ call[2].response.ExpiresIn = 0
  /\ accessToken = <<"A2">> /\ accessTokenExpire = 3600

====
